---- MODULE Spec2Model ----
(***************************************************************************)
(* A model of the feistel crate: the PKCS#7 padding functions of           *)
(* src/padding.rs and the round engine, cipher and decipher of src/lib.rs. *)
(* Bytes are the integers 0..255; a Vec<u8> or a slice is a sequence.      *)
(***************************************************************************)
EXTENDS Integers, Sequences, FiniteSets, TLC

VARIABLES
    pc,             \* position of the program
    op,             \* the public function the caller entered
    message,        \* the caller's message argument
    block_size,     \* the caller's block_size argument
    rounds,         \* the caller's rounds argument
    round_function, \* which round function the caller supplied
    ksMode,         \* how the caller's key generator orders the decipher keys
    call,           \* the call being executed: "cipher", "decipher" or "none"
    result,         \* the buffer `result` (padding: the Vec being built / truncated)
    entry,          \* the buffer as it was handed to the running function
    start,          \* execute_rounds: `start`
    round,          \* execute_rounds: rounds of the current block already run
    draws,          \* calls of key_generator made by the running execute_rounds
    tape,           \* keys the cipher call drew, in drawing order
    plain,          \* the padded buffer the cipher call handed to execute_rounds
    ciphered,       \* what cipher returned
    before,         \* remove_padding: the Vec as the caller passed it
    padding,        \* remove_padding: `padding`, the last byte of the message
    pops,           \* remove_padding: iterations of the loop completed
    outcome         \* the Result of remove_padding / decipher

vars == << pc, op, message, block_size, rounds, round_function, ksMode, call,
           result, entry, start, round, draws, tape, plain, ciphered,
           before, padding, pops, outcome >>

----------------------------------------------------------------------------
(* Bounds of the model *)

MaxByteVal == 3
MaxBufLen == 4
MaxMsgLen == 2
MaxSmallBlock == 4
MaxRounds == 2

(* Program constants *)

MaxBlockSize == 256
ByteRange == 256

----------------------------------------------------------------------------
(* Bytes and byte sequences *)

RECURSIVE BitXor(_, _, _)
BitXor(a, b, n) ==
    IF n = 0 THEN 0
    ELSE (((a % 2) + (b % 2)) % 2) + 2 * BitXor(a \div 2, b \div 2, n - 1)

RECURSIVE BitOr(_, _, _)
BitOr(a, b, n) ==
    IF n = 0 THEN 0
    ELSE (IF (a % 2) + (b % 2) > 0 THEN 1 ELSE 0) + 2 * BitOr(a \div 2, b \div 2, n - 1)

Xor8(a, b) == BitXor(a, b, 8)
Or8(a, b) == BitOr(a, b, 8)

AsU8(n) == n % ByteRange

Repeat(v, n) == [i \in 1..n |-> v]

Min(a, b) == IF a < b THEN a ELSE b

RECURSIVE SeqsUpTo(_, _)
SeqsUpTo(S, n) ==
    IF n = 0 THEN {<< >>}
    ELSE LET shorter == SeqsUpTo(S, n - 1)
         IN shorter \cup {Append(s, v) : s \in shorter, v \in S}

----------------------------------------------------------------------------
(* padding::pkcs7 *)

(* A faulty padding length: nothing is appended to a whole number of blocks. *)
needed_padding_mod(len, bs) == (bs - (len % bs)) % bs

needed_padding(len, bs) == bs - (len % bs)

add_padding_ok(bs) == bs <= MaxBlockSize /\ bs > 0

add_padding(msg, bs) ==
    msg \o Repeat(AsU8(needed_padding(Len(msg), bs)), needed_padding(Len(msg), bs))

(* `for _ in 1..=padding`: another iteration is due after `done` of them *)
pops_remain(done, pad) == done < pad

(* `match message.last()`: the error returned at once, or "loop" *)
remove_match(buf) ==
    IF buf = << >> THEN "Empty"
    ELSE IF buf[Len(buf)] > 0 THEN "loop"
    ELSE "Zero"

(* A faulty iteration that peeks before it pops: a mismatching byte stays. *)
pop_step_peek(buf, pad) ==
    IF buf = << >> THEN [status |-> "Malformed", buf |-> buf]
    ELSE IF buf[Len(buf)] = pad
         THEN [status |-> "continue", buf |-> SubSeq(buf, 1, Len(buf) - 1)]
         ELSE [status |-> "Malformed", buf |-> buf]

(* A faulty iteration that never compares the popped byte with the padding number. *)
pop_step_blind(buf, pad) ==
    IF buf = << >> THEN [status |-> "Malformed", buf |-> buf]
    ELSE [status |-> "continue", buf |-> SubSeq(buf, 1, Len(buf) - 1)]

(* One iteration of `for _ in 1..=padding { match message.pop() ... }` *)
pop_step(buf, pad) ==
    IF buf = << >> THEN [status |-> "Malformed", buf |-> buf]
    ELSE IF buf[Len(buf)] = pad
         THEN [status |-> "continue", buf |-> SubSeq(buf, 1, Len(buf) - 1)]
         ELSE [status |-> "Malformed", buf |-> SubSeq(buf, 1, Len(buf) - 1)]

----------------------------------------------------------------------------
(* The caller's collaborators: round functions and keys *)

(* tests::slices_or: bytewise OR over the common prefix, then the rest of the
   longer slice; the result is as long as the longer argument. *)
slices_or(s1, s2) ==
    LET shortest == IF Len(s1) < Len(s2) THEN s1 ELSE s2
        longest == IF Len(s1) < Len(s2) THEN s2 ELSE s1
    IN [i \in 1..Len(longest) |->
           IF i <= Len(shortest) THEN Or8(shortest[i], longest[i]) ELSE longest[i]]

(* A second round function a caller may supply: the half rotated by one place,
   each byte plus the key's first byte and the position, modulo 256. *)
rot_add(half, key) ==
    LET n == Len(half)
        k == IF key = << >> THEN 0 ELSE key[1]
    IN [i \in 1..n |-> AsU8(half[(i % n) + 1] + k + i)]

RoundFunctions == {"slices_or", "rot_add"}

ApplyRoundFunction(fn, half, key) ==
    IF fn = "slices_or" THEN slices_or(half, key) ELSE rot_add(half, key)

KeySet == {<<5>>, <<200>>}

MsgBytes == {1, 200}

Reverse(s) == [i \in 1..Len(s) |-> s[Len(s) + 1 - i]]

----------------------------------------------------------------------------
(* execute_rounds *)

half_block_size(bs) == bs \div 2

(* buf[from..from+len(src)].copy_from_slice(src), from counted from 0 *)
copy_from_slice(buf, from, src) ==
    [i \in 1..Len(buf) |->
        IF from < i /\ i <= from + Len(src) THEN src[i - from] ELSE buf[i]]

(* buf[from..to].to_owned(), from and to counted from 0 *)
to_owned(buf, from, to) == SubSeq(buf, from + 1, to)

(* A faulty round that feeds the left half, not the right, to the round function. *)
round_body_left(buf, st, hbs, fn, key) ==
    LET middle == st + hbs
        end == middle + hbs
        left == to_owned(buf, st, middle)
        right == to_owned(buf, middle, end)
        buf1 == copy_from_slice(buf, st, right)
        right2 == ApplyRoundFunction(fn, left, key)
        left2 == [i \in 1..hbs |-> Xor8(left[i], right2[i])]
    IN copy_from_slice(buf1, middle, left2)

(* One iteration of `for _ in 1..=rounds`, with the key that key_generator returned *)
round_body(buf, st, hbs, fn, key) ==
    LET middle == st + hbs
        end == middle + hbs
        left == to_owned(buf, st, middle)
        right == to_owned(buf, middle, end)
        buf1 == copy_from_slice(buf, st, right)
        right2 == ApplyRoundFunction(fn, right, key)
        left2 == [i \in 1..hbs |-> Xor8(left[i], right2[i])]
    IN copy_from_slice(buf1, middle, left2)

(* A faulty engine that leaves the halves where the last round put them. *)
final_swap_none(buf, st, hbs) == buf

(* The swap of the two halves after the rounds of a block *)
final_swap(buf, st, hbs) ==
    LET middle == st + hbs
        end == middle + hbs
        left == to_owned(buf, st, middle)
        right == to_owned(buf, middle, end)
    IN copy_from_slice(copy_from_slice(buf, st, right), middle, left)

(* A faulty loop `for _ in 0..=rounds`, one iteration too many. *)
rounds_remain_inclusive(done, r) == done <= r

(* `for _ in 1..=rounds`: another iteration is due after `done` of them *)
rounds_remain(done, r) == done < r

(* `while start < result.len()` *)
blocks_remain(st, buf) == st < Len(buf)

block_end(st, bs) == st + half_block_size(bs) + half_block_size(bs)

(* Slicing result[start..middle] or result[middle..end] past the end panics *)
slice_in_bounds(st, bs, buf) == block_end(st, bs) <= Len(buf)

(* A faulty validation that forgets the parity assertion. *)
block_size_ok_positive(bs) == bs > 0

(* The assertions opening cipher and decipher *)
block_size_ok(bs) == bs > 0 /\ bs % 2 = 0

RoundTrip == op = "cipher" /\ call = "decipher"

(* What the caller's key generator may return on its next call.  In cipher, and
   in a decipher of a foreign message, any key.  In the decipher of a round
   trip, the keys of the cipher call replayed backwards: over the whole call
   ("global", the decrementing counter of tests::test) or block by block. *)
NextKeys ==
    IF ~RoundTrip THEN KeySet
    ELSE LET j == Len(draws)
             n == Len(tape)
             idx == IF ksMode = "global" THEN n - j
                    ELSE (j \div rounds) * rounds + rounds - (j % rounds)
         IN IF idx \in 1..n THEN {tape[idx].key} ELSE KeySet

----------------------------------------------------------------------------
(* cipher, decipher and the engine, step by step *)

Messages == SeqsUpTo(MsgBytes, MaxMsgLen)

BlockSizes == (0..MaxSmallBlock) \cup {MaxBlockSize, MaxBlockSize + 1, MaxBlockSize + 2}

Init ==
    /\ op \in {"cipher", "decipher"}
    /\ pc = op
    /\ call = op
    /\ message \in Messages
    /\ block_size \in BlockSizes
    /\ rounds \in 0..MaxRounds
    /\ round_function \in RoundFunctions
    /\ ksMode = "free"
    /\ result = << >>
    /\ entry = << >>
    /\ start = 0
    /\ round = 0
    /\ draws = << >>
    /\ tape = << >>
    /\ plain = << >>
    /\ ciphered = << >>
    /\ before = << >>
    /\ padding = 0
    /\ pops = 0
    /\ outcome = "none"

CipherAssertOk ==
    /\ pc = "cipher"
    /\ block_size_ok(block_size)
    /\ pc' = "c_padder"
    /\ UNCHANGED << op, message, block_size, rounds, round_function, ksMode, call,
                    result, entry, start, round, draws, tape, plain, ciphered,
                    before, padding, pops, outcome >>

CipherAssertPanic ==
    /\ pc = "cipher"
    /\ ~block_size_ok(block_size)
    /\ pc' = "panic_assert"
    /\ UNCHANGED << op, message, block_size, rounds, round_function, ksMode, call,
                    result, entry, start, round, draws, tape, plain, ciphered,
                    before, padding, pops, outcome >>

CipherPadder ==
    /\ pc = "c_padder"
    /\ add_padding_ok(block_size)
    /\ result' = add_padding(message, block_size)
    /\ entry' = result'
    /\ plain' = result'
    /\ start' = 0
    /\ round' = 0
    /\ draws' = << >>
    /\ pc' = "rounds"
    /\ UNCHANGED << op, message, block_size, rounds, round_function, ksMode, call,
                    tape, ciphered,
                    before, padding, pops, outcome >>

CipherPadderPanic ==
    /\ pc = "c_padder"
    /\ ~add_padding_ok(block_size)
    /\ pc' = "panic_padder"
    /\ UNCHANGED << op, message, block_size, rounds, round_function, ksMode, call,
                    result, entry, start, round, draws, tape, plain, ciphered,
                    before, padding, pops, outcome >>

ExecRound ==
    /\ pc = "rounds"
    /\ blocks_remain(start, result)
    /\ rounds_remain(round, rounds)
    /\ slice_in_bounds(start, block_size, result)
    /\ \E key \in NextKeys :
          /\ result' = round_body(result, start, half_block_size(block_size),
                                  round_function, key)
          /\ draws' = Append(draws, [block |-> start \div block_size,
                                     round |-> round + 1, key |-> key])
          /\ tape' = IF call = "cipher" THEN draws' ELSE tape
    /\ round' = round + 1
    /\ UNCHANGED << pc, op, message, block_size, rounds, round_function, ksMode, call,
                    entry, start, plain, ciphered,
                    before, padding, pops, outcome >>

ExecSwap ==
    /\ pc = "rounds"
    /\ blocks_remain(start, result)
    /\ ~rounds_remain(round, rounds)
    /\ slice_in_bounds(start, block_size, result)
    /\ result' = final_swap(result, start, half_block_size(block_size))
    /\ start' = block_end(start, block_size)
    /\ round' = 0
    /\ UNCHANGED << pc, op, message, block_size, rounds, round_function, ksMode, call,
                    entry, draws, tape, plain, ciphered,
                    before, padding, pops, outcome >>

ExecSlicePanic ==
    /\ pc = "rounds"
    /\ blocks_remain(start, result)
    /\ ~slice_in_bounds(start, block_size, result)
    /\ pc' = "panic_slice"
    /\ UNCHANGED << op, message, block_size, rounds, round_function, ksMode, call,
                    result, entry, start, round, draws, tape, plain, ciphered,
                    before, padding, pops, outcome >>

CipherReturn ==
    /\ pc = "rounds"
    /\ call = "cipher"
    /\ ~blocks_remain(start, result)
    /\ ciphered' = result
    /\ pc' = "c_return"
    /\ UNCHANGED << op, message, block_size, rounds, round_function, ksMode, call,
                    result, entry, start, round, draws, tape, plain,
                    before, padding, pops, outcome >>

(* The caller hands what cipher returned to decipher, as tests::test does, with
   a key generator that replays the cipher's keys backwards: over the whole call
   or block by block (the same thing when the buffer is one block). *)
CallDecipher ==
    /\ pc = "c_return"
    /\ call' = "decipher"
    /\ pc' = "decipher"
    /\ ksMode' \in (IF Len(ciphered) > block_size THEN {"global", "per_block"}
                    ELSE {"global"})
    /\ UNCHANGED << op, message, block_size, rounds, round_function,
                    result, entry, start, round, draws, tape, plain, ciphered,
                    before, padding, pops, outcome >>

DecipherAssertOk ==
    /\ pc = "decipher"
    /\ block_size_ok(block_size)
    /\ pc' = "d_copy"
    /\ UNCHANGED << op, message, block_size, rounds, round_function, ksMode, call,
                    result, entry, start, round, draws, tape, plain, ciphered,
                    before, padding, pops, outcome >>

DecipherAssertPanic ==
    /\ pc = "decipher"
    /\ ~block_size_ok(block_size)
    /\ pc' = "panic_assert"
    /\ UNCHANGED << op, message, block_size, rounds, round_function, ksMode, call,
                    result, entry, start, round, draws, tape, plain, ciphered,
                    before, padding, pops, outcome >>

DecipherCopy ==
    /\ pc = "d_copy"
    /\ result' = IF op = "cipher" THEN ciphered ELSE message
    /\ entry' = result'
    /\ start' = 0
    /\ round' = 0
    /\ draws' = << >>
    /\ pc' = "rounds"
    /\ UNCHANGED << op, message, block_size, rounds, round_function, ksMode, call,
                    tape, plain, ciphered,
                    before, padding, pops, outcome >>

DecipherEngineReturn ==
    /\ pc = "rounds"
    /\ call = "decipher"
    /\ ~blocks_remain(start, result)
    /\ pc' = "r_match"
    /\ UNCHANGED << op, message, block_size, rounds, round_function, ksMode, call,
                    result, entry, start, round, draws, tape, plain, ciphered,
                    before, padding, pops, outcome >>

(* remove_padding, entered by decipher's padding_remover call or directly *)
RemoveMatch ==
    /\ pc = "r_match"
    /\ before' = result
    /\ IF remove_match(result) = "loop"
       THEN /\ padding' = result[Len(result)]
            /\ pc' = "r_loop"
            /\ outcome' = outcome
       ELSE /\ padding' = padding
            /\ pc' = "done"
            /\ outcome' = remove_match(result)
    /\ pops' = 0
    /\ UNCHANGED << op, message, block_size, rounds, round_function, ksMode, call,
                    result, entry, start, round, draws, tape, plain, ciphered >>

RemovePop ==
    /\ pc = "r_loop"
    /\ pops_remain(pops, padding)
    /\ result' = pop_step(result, padding).buf
    /\ IF pop_step(result, padding).status = "continue"
       THEN /\ pops' = pops + 1
            /\ pc' = pc
            /\ outcome' = outcome
       ELSE /\ pops' = pops
            /\ pc' = "done"
            /\ outcome' = "Malformed"
    /\ UNCHANGED << op, message, block_size, rounds, round_function, ksMode, call,
                    entry, start, round, draws, tape, plain, ciphered, before, padding >>

RemoveOk ==
    /\ pc = "r_loop"
    /\ ~pops_remain(pops, padding)
    /\ outcome' = "Ok"
    /\ pc' = "done"
    /\ UNCHANGED << op, message, block_size, rounds, round_function, ksMode, call,
                    result, entry, start, round, draws, tape, plain, ciphered,
                    before, padding, pops >>

Next ==
    \/ CipherAssertOk
    \/ CipherAssertPanic
    \/ CipherPadder
    \/ CipherPadderPanic
    \/ ExecRound
    \/ ExecSwap
    \/ ExecSlicePanic
    \/ CipherReturn
    \/ CallDecipher
    \/ DecipherAssertOk
    \/ DecipherAssertPanic
    \/ DecipherCopy
    \/ DecipherEngineReturn
    \/ RemoveMatch
    \/ RemovePop
    \/ RemoveOk

Spec == Init /\ [][Next]_vars

----------------------------------------------------------------------------
(* The padding functions on their own *)

PadMessages == SeqsUpTo(0..MaxByteVal, MaxMsgLen)

PadBuffers == SeqsUpTo(0..MaxByteVal, MaxBufLen)

PadBlockSizes == (0..MaxSmallBlock) \cup {MaxBlockSize, MaxBlockSize + 1}

PadInit ==
    /\ op \in {"add_padding", "remove_padding"}
    /\ pc = (IF op = "add_padding" THEN "p_add" ELSE "r_match")
    /\ call = "none"
    /\ message \in (IF op = "add_padding" THEN PadMessages ELSE {<< >>})
    /\ block_size \in (IF op = "add_padding" THEN PadBlockSizes ELSE {0})
    /\ result \in (IF op = "add_padding" THEN {<< >>} ELSE PadBuffers)
    /\ entry = << >>
    /\ rounds = 0
    /\ round_function = "slices_or"
    /\ ksMode = "free"
    /\ start = 0
    /\ round = 0
    /\ draws = << >>
    /\ tape = << >>
    /\ plain = << >>
    /\ ciphered = << >>
    /\ before = << >>
    /\ padding = 0
    /\ pops = 0
    /\ outcome = "none"

PadAdd ==
    /\ pc = "p_add"
    /\ add_padding_ok(block_size)
    /\ result' = add_padding(message, block_size)
    /\ pc' = "r_match"
    /\ UNCHANGED << op, message, block_size, rounds, round_function, ksMode, call,
                    entry, start, round, draws, tape, plain, ciphered,
                    before, padding, pops, outcome >>

PadAddPanic ==
    /\ pc = "p_add"
    /\ ~add_padding_ok(block_size)
    /\ pc' = "panic_padder"
    /\ UNCHANGED << op, message, block_size, rounds, round_function, ksMode, call,
                    result, entry, start, round, draws, tape, plain, ciphered,
                    before, padding, pops, outcome >>

PadNext ==
    \/ PadAdd
    \/ PadAddPanic
    \/ RemoveMatch
    \/ RemovePop
    \/ RemoveOk

SpecPad == PadInit /\ [][PadNext]_vars

----------------------------------------------------------------------------
(* Properties of the padding functions *)

AfterAdd == op = "add_padding" /\ pc = "r_match"

Appended == Len(result) - Len(message)

(* The number of bytes at the end of buf that equal p *)
TrailingRun(buf, p) ==
    CHOOSE j \in 0..Len(buf) :
        /\ \A i \in (Len(buf) - j + 1)..Len(buf) : buf[i] = p
        /\ j = Len(buf) \/ buf[Len(buf) - j] # p

(* C2: for every message and every block size 1..256, remove_padding applied to
   add_padding(m, B) returns Ok(()) and leaves exactly m. *)
C2_PaddingRoundTrip ==
    (op = "add_padding" /\ block_size >= 1 /\ block_size <= MaxBlockSize) =>
        /\ pc # "panic_padder"
        /\ pc = "done" => (outcome = "Ok" /\ result = message)

(* The padding round trip wherever fewer than 256 bytes are appended. *)
PaddingRoundTripBelow256 ==
    (op = "add_padding" /\ pc = "done" /\ Len(before) - Len(message) < ByteRange) =>
        (outcome = "Ok" /\ result = message)

(* C3: add_padding keeps m as a prefix and appends pad_len = B - (len(m) mod B)
   bytes, 1 <= pad_len <= B; the result length is a multiple of B, and a message
   of a whole number of blocks gets a full block of padding. *)
C3_PaddingLength ==
    /\ (op = "add_padding" /\ block_size >= 1 /\ block_size <= MaxBlockSize)
          => pc # "panic_padder"
    /\ AfterAdd =>
          /\ Len(result) >= Len(message)
          /\ SubSeq(result, 1, Len(message)) = message
          /\ Appended = block_size - (Len(message) % block_size)
          /\ 1 <= Appended /\ Appended <= block_size
          /\ Len(result) % block_size = 0
          /\ (Len(message) % block_size = 0) => Len(result) = Len(message) + block_size

C3_Witness ==
    /\ AfterAdd
    /\ block_size = MaxBlockSize
    /\ message = << >>
    /\ Len(result) = MaxBlockSize

(* C4: every byte add_padding appends has a value equal to the number of bytes
   appended, the case of 256 appended bytes included. *)
C4_PaddingTag ==
    AfterAdd => \A i \in (Len(message) + 1)..Len(result) : result[i] = Appended

(* The tag is the number of appended bytes reduced modulo 256. *)
PaddingTagModulo ==
    AfterAdd => \A i \in (Len(message) + 1)..Len(result) : result[i] = Appended % ByteRange

(* C5: remove_padding fails with "empty message" on an empty buffer, with
   "padding number cannot be 0" when the last byte is 0; otherwise, with p the
   last byte, it returns Ok exactly when the buffer has at least p bytes and its
   last p bytes all equal p, and then exactly those p bytes are removed; in every
   other case it fails with "malformed padding". *)
C5_RemoveOutcome ==
    pc = "done" =>
        LET n == Len(before)
        IN /\ outcome \in {"Empty", "Zero", "Malformed", "Ok"}
           /\ (n = 0) <=> (outcome = "Empty")
           /\ (n > 0 /\ before[n] = 0) <=> (outcome = "Zero")
           /\ (n > 0 /\ before[n] > 0) =>
                 /\ (outcome = "Ok") <=>
                        /\ n >= before[n]
                        /\ \A i \in (n - before[n] + 1)..n : before[i] = before[n]
                 /\ (outcome = "Ok") => result = SubSeq(before, 1, n - before[n])
                 /\ (outcome # "Ok") => outcome = "Malformed"

C5_Witness ==
    /\ pc = "done"
    /\ op = "remove_padding"
    /\ before = <<1, 2, 2>>
    /\ outcome = "Ok"
    /\ result = <<1>>

(* C10: a remove_padding that fails on an empty buffer or on a last byte 0
   leaves the buffer unchanged; one that fails with malformed padding leaves it
   shortened by min(j + 1, original length) bytes, j < p being the number of
   trailing bytes equal to the last byte p, and what remains is a prefix of the
   original buffer. *)
C10_BufferAfterFailure ==
    pc = "done" =>
        /\ outcome \in {"Empty", "Zero"} => result = before
        /\ outcome = "Malformed" =>
              LET n == Len(before)
                  j == TrailingRun(before, before[n])
              IN /\ j < before[n]
                 /\ Len(result) = n - Min(j + 1, n)
                 /\ result = SubSeq(before, 1, Len(result))

C10_Witness ==
    /\ pc = "done"
    /\ op = "remove_padding"
    /\ before = <<0, 1, 3, 3>>
    /\ outcome = "Malformed"
    /\ result = <<0>>

----------------------------------------------------------------------------
(* Properties of the engine, cipher and decipher *)

InvalidBlockSize == block_size = 0 \/ block_size % 2 = 1

Panicked == pc \in {"panic_assert", "panic_padder", "panic_slice"}

(* The engine is running, or has returned and its buffer is still whole *)
EngineRan == pc \in {"rounds", "c_return", "r_match"}

EngineReturned == pc \in {"c_return", "r_match"}

Block(buf, b) == SubSeq(buf, b * block_size + 1, (b + 1) * block_size)

BlocksDone == start \div block_size

BlockCount(buf) == Len(buf) \div block_size

(* The keys of a log of key_generator calls that were drawn during block b *)
KeysOfBlock(log, b) ==
    LET mine == SelectSeq(log, LAMBDA d : d.block = b)
    IN [i \in 1..Len(mine) |-> mine[i].key]

XorSeq(a, b) == [i \in 1..Len(a) |-> Xor8(a[i], b[i])]

(* The reference Feistel network on a pair of halves: L_i = R_(i-1),
   R_i = L_(i-1) XOR F(R_(i-1), key_i); the result is <<L_r, R_r>>. *)
RECURSIVE FeistelLR(_, _, _, _)
FeistelLR(L, R, keys, fn) ==
    IF keys = << >> THEN <<L, R>>
    ELSE FeistelLR(R, XorSeq(L, ApplyRoundFunction(fn, R, Head(keys))), Tail(keys), fn)

(* r rounds, then the halves swapped: (L0, R0) becomes (R_r, L_r) *)
ReferenceBlock(blk, keys, fn) ==
    LET h == Len(blk) \div 2
        lr == FeistelLR(SubSeq(blk, 1, h), SubSeq(blk, h + 1, Len(blk)), keys, fn)
    IN lr[2] \o lr[1]

(* C1: cipher followed by decipher, the decipher keys being the cipher keys in
   reverse over the whole call, returns Ok(m) for every message, every even
   block size 2..256 and every round count >= 1. *)
C1_CipherRoundTrip ==
    (RoundTrip /\ ksMode = "global" /\ rounds >= 1 /\ block_size <= MaxBlockSize) =>
        /\ ~Panicked
        /\ pc = "done" => (outcome = "Ok" /\ result = message)

(* The round trip where it does hold: the keys reversed block by block (which a
   reversal over the whole call is when there is one block), and fewer than 256
   bytes of padding. *)
RoundTripPerBlock ==
    (RoundTrip /\ pc = "done" /\ Len(plain) - Len(message) < ByteRange
       /\ (ksMode = "per_block" \/ Len(plain) = block_size)) =>
        (outcome = "Ok" /\ result = message)

(* C6: cipher and decipher panic whenever block_size is 0 or odd, before the
   padder, the key generator, the round function or the padding remover is
   called and before any buffer exists; a positive even block_size never fails
   the validation. *)
C6_BlockSizeValidation ==
    /\ InvalidBlockSize =>
          /\ pc \in {"cipher", "decipher", "panic_assert"}
          /\ result = << >> /\ entry = << >> /\ before = << >>
          /\ draws = << >> /\ tape = << >>
          /\ outcome = "none"
    /\ ~InvalidBlockSize => pc # "panic_assert"

C6_Witness ==
    /\ pc = "panic_assert"
    /\ op = "decipher"
    /\ block_size = 3
    /\ Len(message) = 2
    /\ rounds = 2

(* C7: a block run through execute_rounds with keys k1..kr and then again with
   the same round function and the keys kr..k1 is restored byte for byte, for
   every r >= 0 and round functions that are not invertible. *)
C7_BlockInversion ==
    (RoundTrip /\ EngineRan) =>
        \A b \in 0..(BlocksDone - 1) :
            (KeysOfBlock(draws, b) = Reverse(KeysOfBlock(tape, b))) =>
                Block(result, b) = Block(plain, b)

C7_Witness ==
    /\ RoundTrip
    /\ pc = "r_match"
    /\ rounds = 2
    /\ round_function = "slices_or"
    /\ BlockCount(result) = 2
    /\ KeysOfBlock(tape, 1) = <<(<<5>>), (<<200>>)>>
    /\ KeysOfBlock(draws, 1) = <<(<<200>>), (<<5>>)>>
    /\ Block(ciphered, 1) # Block(plain, 1)
    /\ Block(result, 1) = Block(plain, 1)

(* C8: on a buffer of whole blocks execute_rounds keeps the length and rewrites
   every block (L0, R0) to (R_r, L_r) of the reference Feistel network run with
   the r keys drawn for that block; blocks not yet reached are untouched; with
   rounds = 0 a block's output is its two halves swapped. *)
C8_EngineReference ==
    (EngineRan /\ Len(entry) % block_size = 0) =>
        /\ Len(result) = Len(entry)
        /\ EngineReturned => BlocksDone = BlockCount(entry)
        /\ \A b \in 0..(BlockCount(entry) - 1) :
              /\ b < BlocksDone =>
                    /\ Len(KeysOfBlock(draws, b)) = rounds
                    /\ Block(result, b) =
                          ReferenceBlock(Block(entry, b), KeysOfBlock(draws, b),
                                         round_function)
                    /\ rounds = 0 =>
                          Block(result, b) =
                              SubSeq(Block(entry, b), half_block_size(block_size) + 1,
                                     block_size)
                              \o SubSeq(Block(entry, b), 1, half_block_size(block_size))
              /\ b > BlocksDone => Block(result, b) = Block(entry, b)

C8_Witness ==
    /\ pc = "c_return"
    /\ rounds = 2
    /\ round_function = "rot_add"
    /\ block_size = 4
    /\ BlockCount(entry) = 1
    /\ KeysOfBlock(draws, 0) = <<(<<5>>), (<<200>>)>>
    /\ result # entry

(* C9: in one execute_rounds call over n blocks the key generator is called
   rounds * n times; the j-th key drawn (from 0) is consumed by round
   (j mod rounds) + 1 of block floor(j / rounds); with an empty buffer or
   rounds = 0 no key is drawn. *)
C9_KeyDrawOrder ==
    EngineRan =>
        /\ (rounds = 0 \/ entry = << >>) => draws = << >>
        /\ rounds > 0 =>
              \A j \in 1..Len(draws) :
                  /\ draws[j].block = (j - 1) \div rounds
                  /\ draws[j].round = ((j - 1) % rounds) + 1
        /\ Len(draws) = BlocksDone * rounds + round
        /\ EngineReturned => Len(draws) = rounds * BlockCount(entry)

C9_Witness ==
    /\ pc = "c_return"
    /\ rounds = 2
    /\ BlockCount(entry) = 2
    /\ Len(draws) = 4
    /\ draws[3].block = 1 /\ draws[3].round = 1

====
